---------------------------- MODULE Spec2Model ----------------------------
(***************************************************************************)
(* A model of the id3-js tag codec: the facade NodeID3 (src/src/index.ts), *)
(* the frame encoder (FrameEncoder), the frame decoder                     *)
(* (src/src/frameDecoder.ts) and the alias tables                          *)
(* (src/src/frameDefinitions.ts).                                          *)
(*                                                                         *)
(* Conventions.  A Buffer is a sequence of bytes 0..255; a JavaScript      *)
(* string is a sequence of UTF-16 code units.  The source indexes from 0,  *)
(* TLA+ sequences from 1: At, Slice, IndexOf and Substring take and return *)
(* the 0-based indices of the source.  A JavaScript object is the sequence *)
(* of its <<key, value>> entries in insertion order, which is the order    *)
(* Object.entries enumerates them in.                                      *)
(***************************************************************************)
EXTENDS Integers, Sequences, FiniteSets, TLC

VARIABLES
    strictCopy,   \* whether the runtime's Buffer.copy rejects a sourceStart past the end
    mode,         \* "bytes": the caller holds a Buffer; "path": the caller names a file
    path,         \* the file's path, a string
    content,      \* the bytes of the caller's Buffer, or of the file at path
    call,         \* the last call made on the default instance, and its outcome
    prev,         \* the call made before it
    calls,        \* the number of calls made so far
    sizing,       \* a tag size on its way through the header's four size bytes
    lookup,       \* an alias or a frame identifier on its way through the frame tables
    framing       \* a frame on its way through FrameEncoder and FrameDecoder

vars == <<strictCopy, mode, path, content, call, prev, calls, sizing, lookup, framing>>

-----------------------------------------------------------------------------
(* JavaScript values *)

\* `undefined`, where a byte or a code unit is expected
Undef == 0 - 1

\* `undefined`, where a string is expected
UndefStr == <<Undef>>

Min(a, b) == IF a < b THEN a ELSE b
Max(a, b) == IF a > b THEN a ELSE b

\* buffer[i], `undefined` outside the buffer
At(b, i) == IF i >= 0 /\ i < Len(b) THEN b[i + 1] ELSE Undef

\* Buffer.alloc(n): n zero bytes (n >= 0; the callers model the RangeError of n < 0)
Alloc(n) == [i \in 1..n |-> 0]

\* buffer.slice(start, end) and string.slice(start, end) for start, end >= 0
Slice(b, start, end) ==
    LET s == Min(start, Len(b))
        e == Min(end, Len(b))
    IN  IF s >= e THEN <<>> ELSE SubSeq(b, s + 1, e)

SliceFrom(b, start) == Slice(b, start, Len(b))

\* string.substring(start, end): both clamped to 0..length, swapped when start > end
Substring(s, start, end) ==
    LET a == Max(0, Min(start, Len(s)))
        b == Max(0, Min(end, Len(s)))
    IN  Slice(s, Min(a, b), Max(a, b))

SubstringFrom(s, start) == Substring(s, start, Len(s))

\* buffer.indexOf(pattern, byteOffset) for a byte sequence pattern; -1 when absent
IndexOf(b, pat, from) ==
    LET hits == {i \in Max(from, 0)..(Len(b) - Len(pat)) :
                    \A j \in 1..Len(pat) : b[i + j] = pat[j]}
    IN  IF hits = {} THEN 0 - 1 ELSE CHOOSE i \in hits : \A k \in hits : i <= k

\* string.replace(/\0/g, "")
StripNul(s) == SelectSeq(s, LAMBDA c : c # 0)

\* Buffer.from([x]) and buffer.writeUInt8 of a byte that may be `undefined`
ToUint8(x) == IF x = Undef THEN 0 ELSE x % 256

\* buffer.writeUInt32BE(n) and buffer.readUIntBE(0, byteLength)
UInt32BE(n) == << (n \div 16777216) % 256, (n \div 65536) % 256, (n \div 256) % 256, n % 256 >>

RECURSIVE readUIntBE(_)
readUIntBE(b) == IF b = <<>> THEN 0 ELSE (256 * readUIntBE(SubSeq(b, 1, Len(b) - 1))) + b[Len(b)]

\* Buffer.concat(list)
RECURSIVE Concat(_)
Concat(list) == IF list = <<>> THEN <<>> ELSE Head(list) \o Concat(Tail(list))

-----------------------------------------------------------------------------
(* JavaScript objects: sequences of <<key, value>> entries *)

ObjKeys(o) == {o[i][1] : i \in 1..Len(o)}
ObjHas(o, k) == k \in ObjKeys(o)
ObjGet(o, k) == LET i == CHOOSE i \in 1..Len(o) : o[i][1] = k IN o[i][2]
\* o[k], or d when o has no property k
ObjGetOr(o, k, d) == IF ObjHas(o, k) THEN ObjGet(o, k) ELSE d

\* o[k] = v: an existing key keeps its place, a new one goes last
ObjSet(o, k, v) ==
    IF ObjHas(o, k)
    THEN [i \in 1..Len(o) |-> IF o[i][1] = k THEN <<k, v>> ELSE o[i]]
    ELSE Append(o, <<k, v>>)

\* the value last given to key k in a list of entries
LastValue(entries, k) ==
    LET i == CHOOSE i \in 1..Len(entries) :
                 entries[i][1] = k /\ \A j \in (i + 1)..Len(entries) : entries[j][1] # k
    IN  entries[i][2]

\* { ...a, ...b }: the entries of b assigned onto a in order, so each key of a
\* keeps its place with the value b gives it last, and the keys only b has
\* follow in the order b first names them
Spread(a, b) ==
    LET kept == [i \in 1..Len(a) |->
                    IF ObjHas(b, a[i][1]) THEN <<a[i][1], LastValue(b, a[i][1])>> ELSE a[i]]
        firsts == SelectSeq([i \in 1..Len(b) |-> <<i, b[i][1]>>],
                            LAMBDA e : /\ ~ObjHas(a, e[2])
                                       /\ \A j \in 1..(e[1] - 1) : b[j][1] # e[2])
    IN  kept \o [i \in 1..Len(firsts) |-> <<firsts[i][2], LastValue(b, firsts[i][2])>>]

\* Object.fromEntries(entries)
ObjFromEntries(entries) == Spread(<<>>, entries)

-----------------------------------------------------------------------------
(* Character sets: iconv-lite and Buffer's UTF-8 *)

\* iconv.encode(s, "utf16"): the UTF-16LE byte order mark FF FE, then each code
\* unit low byte first.  The mark is written for the empty string too.
RECURSIVE Utf16LeBytes(_)
Utf16LeBytes(s) ==
    IF s = <<>> THEN <<>> ELSE <<Head(s) % 256, (Head(s) \div 256) % 256>> \o Utf16LeBytes(Tail(s))

iconvEncodeUtf16(s) == <<255, 254>> \o Utf16LeBytes(s)

\* the byte order iconv-lite's "utf16" decoder settles on: a byte order mark
\* decides; without one, the pairs that look like ASCII in either order are
\* counted and the larger count decides; little-endian otherwise
detectEncoding(b) ==
    IF Len(b) < 2 THEN "utf-16le"
    ELSE IF b[1] = 254 /\ b[2] = 255 THEN "utf-16be"
    ELSE IF b[1] = 255 /\ b[2] = 254 THEN "utf-16le"
    ELSE LET pairs == 1..(Min(Len(b), 64) \div 2)
             asciiCharsBE == Cardinality({p \in pairs : b[2 * p - 1] = 0 /\ b[2 * p] # 0})
             asciiCharsLE == Cardinality({p \in pairs : b[2 * p - 1] # 0 /\ b[2 * p] = 0})
         IN  IF asciiCharsBE > asciiCharsLE THEN "utf-16be" ELSE "utf-16le"

\* iconv.decode(b, "utf16"): whole byte pairs to code units in the detected
\* byte order (an odd last byte is dropped), less one leading U+FEFF
iconvDecodeUtf16(b) ==
    LET le == detectEncoding(b) = "utf-16le"
        units == [p \in 1..(Len(b) \div 2) |->
                    IF le THEN b[2 * p - 1] + (256 * b[2 * p])
                          ELSE (256 * b[2 * p - 1]) + b[2 * p]]
    IN  IF units # <<>> /\ units[1] = 65279 THEN Tail(units) ELSE units

\* iconv.decode(b, "ISO-8859-1"): byte n is the character U+00nn
iconvDecodeLatin1(b) == [i \in 1..Len(b) |-> b[i] % 256]

\* Buffer.from(s): UTF-8, one to three bytes per code unit
RECURSIVE Utf8Encode(_)
Utf8Encode(s) ==
    IF s = <<>> THEN <<>>
    ELSE LET c == Head(s)
             one == IF c < 128 THEN <<c>>
                    ELSE IF c < 2048 THEN <<192 + (c \div 64), 128 + (c % 64)>>
                    ELSE <<224 + (c \div 4096), 128 + ((c \div 64) % 64), 128 + (c % 64)>>
         IN  one \o Utf8Encode(Tail(s))

\* buffer.toString(): UTF-8; a well-formed two- or three-byte sequence is one
\* code unit, and a byte that starts no well-formed sequence is U+FFFD
IsCont(x) == x >= 128 /\ x < 192

RECURSIVE Utf8Decode(_)
Utf8Decode(b) ==
    IF b = <<>> THEN <<>>
    ELSE LET b0 == b[1]
             b1 == At(b, 1)
             b2 == At(b, 2)
         IN  IF b0 < 128 THEN <<b0>> \o Utf8Decode(Tail(b))
             ELSE IF b0 >= 194 /\ b0 < 224 /\ IsCont(b1)
                  THEN <<((b0 - 192) * 64) + (b1 - 128)>> \o Utf8Decode(SliceFrom(b, 2))
             ELSE IF b0 >= 224 /\ b0 < 240 /\ IsCont(b1) /\ IsCont(b2)
                     /\ ((b0 - 224) * 4096) + ((b1 - 128) * 64) >= 2048
                  THEN <<((b0 - 224) * 4096) + ((b1 - 128) * 64) + (b2 - 128)>>
                           \o Utf8Decode(SliceFrom(b, 3))
             ELSE <<65533>> \o Utf8Decode(Tail(b))

-----------------------------------------------------------------------------
(* FrameDefinitions: the alias tables, frame identifiers as their ASCII bytes *)

textFrames ==
   <<
      <<"album", <<84, 65, 76, 66>>>>,  \* TALB
      <<"bpm", <<84, 66, 80, 77>>>>,  \* TBPM
      <<"composer", <<84, 67, 79, 77>>>>,  \* TCOM
      <<"genre", <<84, 67, 79, 78>>>>,  \* TCON
      <<"copyright", <<84, 67, 79, 80>>>>,  \* TCOP
      <<"date", <<84, 68, 65, 84>>>>,  \* TDAT
      <<"playlistDelay", <<84, 68, 76, 89>>>>,  \* TDLY
      <<"encodedBy", <<84, 69, 78, 67>>>>,  \* TENC
      <<"textWriter", <<84, 69, 88, 84>>>>,  \* TEXT
      <<"fileType", <<84, 70, 76, 84>>>>,  \* TFLT
      <<"time", <<84, 73, 77, 69>>>>,  \* TIME
      <<"contentGroup", <<84, 73, 84, 49>>>>,  \* TIT1
      <<"title", <<84, 73, 84, 50>>>>,  \* TIT2
      <<"subtitle", <<84, 73, 84, 51>>>>,  \* TIT3
      <<"initialKey", <<84, 75, 69, 89>>>>,  \* TKEY
      <<"language", <<84, 76, 65, 78>>>>,  \* TLAN
      <<"length", <<84, 76, 69, 78>>>>,  \* TLEN
      <<"mediaType", <<84, 77, 69, 68>>>>,  \* TMED
      <<"originalTitle", <<84, 79, 65, 76>>>>,  \* TOAL
      <<"originalFilename", <<84, 79, 70, 78>>>>,  \* TOFN
      <<"originalTextwriter", <<84, 79, 76, 89>>>>,  \* TOLY
      <<"originalArtist", <<84, 79, 80, 69>>>>,  \* TOPE
      <<"originalYear", <<84, 79, 82, 89>>>>,  \* TORY
      <<"fileOwner", <<84, 79, 87, 78>>>>,  \* TOWN
      <<"artist", <<84, 80, 69, 49>>>>,  \* TPE1
      <<"performerInfo", <<84, 80, 69, 50>>>>,  \* TPE2
      <<"conductor", <<84, 80, 69, 51>>>>,  \* TPE3
      <<"remixArtist", <<84, 80, 69, 52>>>>,  \* TPE4
      <<"partOfSet", <<84, 80, 79, 83>>>>,  \* TPOS
      <<"publisher", <<84, 80, 85, 66>>>>,  \* TPUB
      <<"trackNumber", <<84, 82, 67, 75>>>>,  \* TRCK
      <<"recordingDates", <<84, 82, 68, 65>>>>,  \* TRDA
      <<"internetRadioName", <<84, 82, 83, 78>>>>,  \* TRSN
      <<"internetRadioOwner", <<84, 82, 83, 79>>>>,  \* TRSO
      <<"size", <<84, 83, 73, 90>>>>,  \* TSIZ
      <<"ISRC", <<84, 83, 82, 67>>>>,  \* TSRC
      <<"encodingTechnology", <<84, 83, 83, 69>>>>,  \* TSSE
      <<"year", <<84, 89, 69, 82>>>>   \* TYER
   >>

textFramesV220 ==
   <<
      <<"album", <<84, 65, 76>>>>,  \* TAL
      <<"bpm", <<84, 66, 80>>>>,  \* TBP
      <<"composer", <<84, 67, 77>>>>,  \* TCM
      <<"genre", <<84, 67, 79>>>>,  \* TCO
      <<"copyright", <<84, 67, 82>>>>,  \* TCR
      <<"date", <<84, 68, 65>>>>,  \* TDA
      <<"playlistDelay", <<84, 68, 89>>>>,  \* TDY
      <<"encodedBy", <<84, 69, 78>>>>,  \* TEN
      <<"textWriter", <<84, 88, 84>>>>,  \* TXT
      <<"fileType", <<84, 70, 84>>>>,  \* TFT
      <<"time", <<84, 73, 77>>>>,  \* TIM
      <<"contentGroup", <<84, 84, 49>>>>,  \* TT1
      <<"title", <<84, 84, 50>>>>,  \* TT2
      <<"subtitle", <<84, 84, 51>>>>,  \* TT3
      <<"initialKey", <<84, 75, 69>>>>,  \* TKE
      <<"language", <<84, 76, 65>>>>,  \* TLA
      <<"length", <<84, 76, 69>>>>,  \* TLE
      <<"mediaType", <<84, 77, 84>>>>,  \* TMT
      <<"originalTitle", <<84, 79, 84>>>>,  \* TOT
      <<"originalFilename", <<84, 79, 70>>>>,  \* TOF
      <<"originalTextwriter", <<84, 79, 76>>>>,  \* TOL
      <<"originalArtist", <<84, 79, 65>>>>,  \* TOA
      <<"originalYear", <<84, 79, 82>>>>,  \* TOR
      <<"artist", <<84, 80, 49>>>>,  \* TP1
      <<"performerInfo", <<84, 80, 50>>>>,  \* TP2
      <<"conductor", <<84, 80, 51>>>>,  \* TP3
      <<"remixArtist", <<84, 80, 52>>>>,  \* TP4
      <<"partOfSet", <<84, 80, 65>>>>,  \* TPA
      <<"publisher", <<84, 80, 66>>>>,  \* TPB
      <<"trackNumber", <<84, 82, 75>>>>,  \* TRK
      <<"recordingDates", <<84, 82, 68>>>>,  \* TRD
      <<"size", <<84, 83, 73>>>>,  \* TSI
      <<"ISRC", <<84, 82, 67>>>>,  \* TRC
      <<"encodingTechnology", <<84, 83, 83>>>>,  \* TSS
      <<"year", <<84, 89, 69>>>>   \* TYE
   >>

specialFrames ==
   <<
      <<"comment", <<67, 79, 77, 77>>>>,  \* COMM
      <<"image", <<65, 80, 73, 67>>>>,  \* APIC
      <<"unsynchronisedLyrics", <<85, 83, 76, 84>>>>,  \* USLT
      <<"userDefinedText", <<84, 88, 88, 88>>>>   \* TXXX
   >>

specialFramesV220 ==
   <<
      <<"image", <<80, 73, 67>>>>   \* PIC
   >>

\* flipObject(obj): each value becomes the key of its key
flipObject(obj) == ObjFromEntries([i \in 1..Len(obj) |-> <<obj[i][2], obj[i][1]>>])

\* the object convertNameToAlias flips, and its flip
allFramesByAlias == Spread(Spread(Spread(textFrames, specialFrames), textFramesV220), specialFramesV220)

allFramesByName == flipObject(allFramesByAlias)

\* the alias of a frame identifier; "undefined" is the property key that the
\* value `undefined` becomes when decodeFrames assigns under it
convertNameToAlias(frameName) ==
    ObjGetOr(allFramesByName, frameName, "undefined")

\* the object convertAliasToName looks the alias up in
currentFramesByAlias == Spread(textFrames, specialFrames)

\* the identifier of an alias, `undefined` (UndefStr) when it has none
convertAliasToName(frameAlias) ==
    ObjGetOr(currentFramesByAlias, frameAlias, UndefStr)

TXXX == <<84, 88, 88, 88>>
COMM == <<67, 79, 77, 77>>
USLT == <<85, 83, 76, 84>>
APIC == <<65, 80, 73, 67>>
PIC == <<80, 73, 67>>

canHaveMultipleEntries(frameName) == frameName = TXXX

\* frameName[0] === "T" && frameName !== "TXXX"
isTextFrame(frameName) == At(frameName, 0) = 84 /\ frameName # TXXX

-----------------------------------------------------------------------------
(* Property values and call outcomes *)

\* The value of a property: its JavaScript type and its entries, each entry the
\* sequence of the strings (or the one byte sequence) it holds.
\*   string                    <<text>>
\*   ISpecialTextFrame         <<language, shortText, text>>, or <<>> for {}
\*   IUserDefinedTextFrame     <<description, value>>; the array type holds any number
\*   Buffer                    <<image bytes>>
TextValue(s) == [kind |-> "string", items |-> << <<s>> >>]
SpecialTextValue(language, shortText, text) ==
    [kind |-> "ISpecialTextFrame", items |-> << <<language, shortText, text>> >>]
EmptyObjectValue == [kind |-> "ISpecialTextFrame", items |-> << <<>> >>]
UserDefinedTextValue(description, value) ==
    [kind |-> "IUserDefinedTextFrame", items |-> << <<description, value>> >>]
UserDefinedTextArray(entries) == [kind |-> "IUserDefinedTextFrame[]", items |-> entries]
ImageValue(bytes) == [kind |-> "Buffer", items |-> << <<bytes>> >>]

\* entry.field, `undefined` when the entry has no such field
Field(entry, i) == IF i <= Len(entry) THEN entry[i] ELSE UndefStr

\* What a call comes to: a value it returns, an exception it raises, or no return
\* at all ("hang", a loop that never ends).
Outcome(kind, bytes, frames) == [kind |-> kind, bytes |-> bytes, frames |-> frames]
ReturnBuffer(b) == Outcome("Buffer", b, <<>>)
ReturnFrames(m) == Outcome("IFrames", <<>>, m)
ReturnFalse == Outcome("false", <<>>, <<>>)
ReturnUndefined == Outcome("undefined", <<>>, <<>>)
Throw(error) == Outcome(error, <<>>, <<>>)
Hang == Outcome("hang", <<>>, <<>>)
NoCall == Outcome("none", <<>>, <<>>)

Returned(r) == r.kind \in {"Buffer", "IFrames", "false", "undefined"}

-----------------------------------------------------------------------------
(* FrameEncoder *)

\* a 10-byte frame header: identifier, big-endian payload size, two zero flag bytes
FrameHeader(frameName, size) == frameName \o UInt32BE(size) \o <<0, 0>>

\* createTextFrame were it to leave the encoding byte out of the size
createTextFrameSizedByText(frameName, frameValue) ==
    LET encoded == iconvEncodeUtf16(frameValue)
    IN  Concat(<< FrameHeader(frameName, Len(encoded)), <<1>>, encoded >>)

createTextFrame(frameName, frameValue) ==
    LET encoded == iconvEncodeUtf16(frameValue)
    IN  Concat(<< FrameHeader(frameName, Len(encoded) + 1), <<1>>, encoded >>)

\* createSpecialTextFrame were it to write the selector of the single-byte charset
createSpecialTextFrameSingleByte(frameName, data) ==
    LET language == Field(data, 1)
        shortText == Field(data, 2)
        text == Field(data, 3)
        encodingBuffer == <<0>>
        languageBuffer ==
            IF frameName # TXXX
            THEN Utf8Encode(IF language = UndefStr THEN <<101, 110, 103>>   \* "eng"
                            ELSE Substring(language, 0, 3))
            ELSE <<>>
        contentDescriptorBuffer ==
            IF shortText = UndefStr \/ shortText = <<>>
            THEN iconvEncodeUtf16(<<0>>)
            ELSE iconvEncodeUtf16(shortText) \o Alloc(2)
        textBuffer == iconvEncodeUtf16(IF text = UndefStr THEN <<>> ELSE text)
        buffers == Concat(<< encodingBuffer, languageBuffer, contentDescriptorBuffer, textBuffer >>)
    IN  FrameHeader(frameName, Len(buffers)) \o buffers

createSpecialTextFrame(frameName, data) ==
    LET language == Field(data, 1)
        shortText == Field(data, 2)
        text == Field(data, 3)
        encodingBuffer == <<1>>
        languageBuffer ==
            IF frameName # TXXX
            THEN Utf8Encode(IF language = UndefStr THEN <<101, 110, 103>>   \* "eng"
                            ELSE Substring(language, 0, 3))
            ELSE <<>>
        contentDescriptorBuffer ==
            IF shortText = UndefStr \/ shortText = <<>>
            THEN iconvEncodeUtf16(<<0>>)
            ELSE iconvEncodeUtf16(shortText) \o Alloc(2)
        textBuffer == iconvEncodeUtf16(IF text = UndefStr THEN <<>> ELSE text)
        buffers == Concat(<< encodingBuffer, languageBuffer, contentDescriptorBuffer, textBuffer >>)
    IN  FrameHeader(frameName, Len(buffers)) \o buffers

\* one TXXX frame per entry ({ description, value } read as { shortText, text }),
\* concatenated; `undefined` for no entry
RECURSIVE UserDefinedTextFrames(_)
UserDefinedTextFrames(entries) ==
    IF entries = <<>> THEN <<>>
    ELSE createSpecialTextFrame(TXXX, <<UndefStr, Field(Head(entries), 1), Field(Head(entries), 2)>>)
            \o UserDefinedTextFrames(Tail(entries))

createUserDefinedTextFrame(data) ==
    IF data.items = <<>> THEN UndefStr ELSE UserDefinedTextFrames(data.items)

\* createImageFrame were it to tell a JPEG by its first two bytes only
createImageFrameByTwoBytes(apicData) ==
    LET mimeType ==
            IF At(apicData, 0) = 255 /\ At(apicData, 1) = 216
            THEN <<105, 109, 97, 103, 101, 47, 106, 112, 101, 103>>
            ELSE <<105, 109, 97, 103, 101, 47, 112, 110, 103>>
        bContent == [i \in 1..(Len(mimeType) + 4) |->
                        IF i >= 2 /\ i <= Len(mimeType) + 1 THEN mimeType[i - 1]
                        ELSE IF i = Len(mimeType) + 3 THEN 3
                        ELSE 0]
    IN  Concat(<< FrameHeader(APIC, Len(apicData) + Len(bContent)), bContent, apicData >>)

createImageFrame(apicData) ==
    LET mimeType ==
            IF At(apicData, 0) = 255 /\ At(apicData, 1) = 216 /\ At(apicData, 2) = 255
            THEN <<105, 109, 97, 103, 101, 47, 106, 112, 101, 103>>   \* "image/jpeg"
            ELSE <<105, 109, 97, 103, 101, 47, 112, 110, 103>>        \* "image/png"
        bContent == [i \in 1..(Len(mimeType) + 4) |->
                        IF i >= 2 /\ i <= Len(mimeType) + 1 THEN mimeType[i - 1]
                        ELSE IF i = Len(mimeType) + 3 THEN 3
                        ELSE 0]
    IN  Concat(<< FrameHeader(APIC, Len(apicData) + Len(bContent)), bContent, apicData >>)

\* the frame of a special property, `undefined` (UndefStr) for an identifier
\* that is none of the four
createSpecialFrame(frameName, frameValue) ==
    IF frameName = COMM \/ frameName = USLT THEN createSpecialTextFrame(frameName, frameValue.items[1])
    ELSE IF frameName = APIC THEN createImageFrame(frameValue.items[1][1])
    ELSE IF frameName = TXXX THEN createUserDefinedTextFrame(frameValue)
    ELSE UndefStr

\* The frame buffers of the properties in Object.entries order, or the TypeError
\* of reading frameName[0] of `undefined` in isTextFrame when an alias has no
\* identifier.  kind is "ok" or "TypeError".
RECURSIVE encodeFrames(_)
encodeFrames(frames) ==
    IF frames = <<>> THEN [kind |-> "ok", frameBuffers |-> <<>>]
    ELSE LET frameAlias == frames[1][1]
             frameValue == frames[1][2]
             frameName == convertAliasToName(frameAlias)
         IN  IF frameName = UndefStr THEN [kind |-> "TypeError", frameBuffers |-> <<>>]
             ELSE LET Push(frame, rest) ==
                          IF rest.kind # "ok" THEN rest
                          ELSE [kind |-> "ok",
                                frameBuffers |-> IF frame = UndefStr THEN rest.frameBuffers
                                                 ELSE <<frame>> \o rest.frameBuffers]
                  IN  Push(IF isTextFrame(frameName)
                           THEN createTextFrame(frameName, frameValue.items[1][1])
                           ELSE createSpecialFrame(frameName, frameValue),
                           encodeFrames(Tail(frames)))

-----------------------------------------------------------------------------
(* FrameDecoder *)

\* what a frame reader returns: a value, `undefined`, or nothing ("hang")
Decoded(v) == [kind |-> "value", value |-> v]
DecodedUndefined == [kind |-> "undefined", value |-> EmptyObjectValue]
DecodedHang == [kind |-> "hang", value |-> EmptyObjectValue]

\* iconv.decode(b, encodingByte === 0x01 ? "utf16" : "ISO-8859-1").replace(/\0/g, "")
decodeText(encodingByte, b) ==
    StripNul(IF encodingByte = 1 THEN iconvDecodeUtf16(b) ELSE iconvDecodeLatin1(b))

\* the scan were it to stop at the first pair of zero bytes, whatever follows
scanTerminatorAtFirstPair(data) ==
    LET stops == {i \in 0..(Len(data) - 2) : At(data, i) = 0 /\ At(data, i + 1) = 0}
    IN  IF stops = {} THEN 0 - 1 ELSE CHOOSE i \in stops : \A k \in stops : i <= k

\* The index at which
\*   for(i; data[i] !== undefined && data[i] !== 0x00 || data[i + 1] !== 0x00 || data[i + 2] === 0x00; i++);
\* stops, and -1 when it never does.  The loop goes on while
\* (data[i] is a non-zero byte) or (data[i+1] is not a zero byte) or (data[i+2]
\* is a zero byte); past the end data[i+1] is `undefined`, which is not a zero
\* byte, so the loop stops inside the buffer or not at all.
scanTerminator(data) ==
    LET stops == {i \in 0..(Len(data) - 2) :
                     /\ ~(At(data, i) # Undef /\ At(data, i) # 0)
                     /\ At(data, i + 1) = 0
                     /\ At(data, i + 2) # 0}
    IN  IF stops = {} THEN 0 - 1 ELSE CHOOSE i \in stops : \A k \in stops : i <= k

readSpecialTextFrame(data) ==
    IF At(data, 0) = 0 THEN
        LET latin == iconvDecodeLatin1(data)
            nul == IndexOf(data, <<0>>, 1)
        IN  Decoded(SpecialTextValue(StripNul(Substring(latin, 1, 4)),
                                     StripNul(Substring(latin, 4, nul)),
                                     StripNul(SubstringFrom(latin, nul + 1))))
    ELSE IF At(data, 0) = 1 THEN
        LET i == scanTerminator(data)
        IN  IF i = 0 - 1 THEN DecodedHang
            ELSE IF At(data, i) = Undef THEN Decoded(EmptyObjectValue)
            ELSE Decoded(SpecialTextValue(StripNul(Substring(Utf8Decode(data), 1, 4)),
                                          decodeText(1, Slice(data, 4, i)),
                                          decodeText(1, SliceFrom(data, i + 2))))
    ELSE Decoded(EmptyObjectValue)

readImageFrame(data, version) ==
    LET descOffset == IF version = 2 THEN 5 ELSE IndexOf(data, <<0>>, 1) + 2
        descEnd == IF At(data, 0) = 0
                   THEN IndexOf(data, <<0>>, descOffset)
                   ELSE descOffset + IndexOf(SliceFrom(data, descOffset), <<0, 0>>, 0) + 2
    IN  Decoded(ImageValue(SliceFrom(data, IF descEnd = 0 THEN descEnd + 1 ELSE 5)))

readUserDefinedTextFrame(data) ==
    IF At(data, 0) = 0 THEN
        LET latin == iconvDecodeLatin1(data)
            nul == IndexOf(data, <<0>>, 1)
        IN  Decoded(UserDefinedTextValue(StripNul(Substring(latin, 1, nul)),
                                         StripNul(SubstringFrom(latin, nul + 1))))
    ELSE IF At(data, 0) = 1 THEN
        LET i == scanTerminator(data)
        IN  IF i = 0 - 1 THEN DecodedHang
            ELSE IF At(data, i) = Undef THEN Decoded(EmptyObjectValue)
            ELSE Decoded(UserDefinedTextValue(decodeText(1, Slice(data, 1, i)),
                                              decodeText(1, SliceFrom(data, i + 2))))
    ELSE DecodedUndefined

readSpecialFrame(frameName, data, version) ==
    IF frameName = COMM \/ frameName = USLT THEN readSpecialTextFrame(data)
    ELSE IF frameName = PIC \/ frameName = APIC THEN readImageFrame(data, version)
    ELSE IF frameName = TXXX THEN readUserDefinedTextFrame(data)
    ELSE DecodedUndefined

\* decodedFrames after one more frame; kind "ok" or "hang".  A text frame is
\* assigned its decoded text; a special frame is assigned what readSpecialFrame
\* returns unless that is `undefined`, appended to the array of its alias when
\* the frame can have multiple entries.
decodeFrame(decodedFrames, frame, version) ==
    LET frameName == frame.frameName
        Assign(alias, decoded) ==
            IF decoded.kind = "hang" THEN [kind |-> "hang", frames |-> decodedFrames]
            ELSE IF decoded.kind = "undefined" THEN [kind |-> "ok", frames |-> decodedFrames]
            ELSE IF canHaveMultipleEntries(frameName)
            THEN [kind |-> "ok",
                  frames |-> ObjSet(decodedFrames, alias,
                                    UserDefinedTextArray(
                                        ObjGetOr(decodedFrames, alias, UserDefinedTextArray(<<>>)).items
                                            \o decoded.value.items))]
            ELSE [kind |-> "ok", frames |-> ObjSet(decodedFrames, alias, decoded.value)]
    IN  Assign(convertNameToAlias(frameName),
               IF At(frameName, 0) = 84 /\ frameName # TXXX
               THEN Decoded(TextValue(decodeText(At(frame.body, 0), SliceFrom(frame.body, 1))))
               ELSE readSpecialFrame(frameName, frame.body, version))

RECURSIVE decodeFramesFrom(_, _, _)
decodeFramesFrom(decodedFrames, frames, version) ==
    LET Continue(next) == IF next.kind # "ok" THEN next
                          ELSE decodeFramesFrom(next.frames, Tail(frames), version)
    IN  IF frames = <<>> THEN [kind |-> "ok", frames |-> decodedFrames]
        ELSE Continue(decodeFrame(decodedFrames, Head(frames), version))

decodeFrames(frames, version) == decodeFramesFrom(<<>>, frames, version)

-----------------------------------------------------------------------------
(* NodeID3: the facade *)

ID3 == <<73, 68, 51>>   \* "ID3"

\* x >> n for a signed 32-bit x: the bitwise operators work on 32-bit integers,
\* and every integer of this model is one, so ToInt32 changes nothing here
ShiftRight(x, n) == x \div (2 ^ n)

\* the size as four plain big-endian bytes: the bug of shifting by 8 and masking
\* with 0xFF
encodeSizeBigEndian(totalSize) ==
    << ShiftRight(totalSize, 24) % 256,
       ShiftRight(totalSize, 16) % 256,
       ShiftRight(totalSize, 8) % 256,
       totalSize % 256 >>

\* the four size bytes create writes at header offsets 6..9
encodeSize(totalSize) ==
    << ShiftRight(totalSize, 21) % 128,
       ShiftRight(totalSize, 14) % 128,
       ShiftRight(totalSize, 7) % 128,
       totalSize % 128 >>

decodeSize(buffer) ==
    (buffer[1] * 2097152) + (buffer[2] * 16384) + (buffer[3] * 128) + buffer[4]

getFramePosition(buffer) ==
    LET framePosition == IndexOf(buffer, ID3, 0)
    IN  IF framePosition = 0 - 1 \/ framePosition > 20 THEN 0 - 1 ELSE framePosition

\* create were it to write the version 04 00
createAsV24(frames) ==
    LET Tag(body) ==
            LET totalSize == (10 + Len(body)) - 10
            IN  ReturnBuffer(ID3 \o <<4, 0, 0>> \o encodeSize(totalSize) \o body)
        Header(encoded) == IF encoded.kind # "ok" THEN Throw(encoded.kind)
                           ELSE Tag(Concat(encoded.frameBuffers))
    IN  Header(encodeFrames(frames))

\* the tag block: "ID3", version 03 00, flags 00, the size bytes, the frames
create(frames) ==
    LET Tag(body) ==
            LET totalSize == (10 + Len(body)) - 10
            IN  ReturnBuffer(ID3 \o <<3, 0, 0>> \o encodeSize(totalSize) \o body)
        Header(encoded) == IF encoded.kind # "ok" THEN Throw(encoded.kind)
                           ELSE Tag(Concat(encoded.frameBuffers))
    IN  Header(encodeFrames(frames))

\* Buffer.alloc(length) after source.copy(it, 0, sourceStart): the bytes copied
\* are kept as `head`, the others are zero
Copied(length, source, sourceStart) ==
    [length |-> length, head |-> Slice(source, sourceStart, sourceStart + length)]

CopiedAt(buf, i) ==
    IF i < Len(buf.head) THEN buf.head[i + 1] ELSE IF i < buf.length THEN 0 ELSE Undef

\* Buffer.alloc(length) after buf.copy(it, 0, sourceStart)
CopiedOut(length, buf, sourceStart) ==
    [j \in 1..length |-> ToUint8(CopiedAt(buf, sourceStart + j - 1))]

\* The frame scan of read, from currentPosition on: the frames found, or the
\* RangeError of a copy whose sourceStart lies past the end of ID3FrameBody
\* where the runtime rejects that.
RECURSIVE scanFrames(_, _, _, _, _)
scanFrames(ID3FrameBody, frameSize, ID3Version, strict, currentPosition) ==
    LET identifierSize == IF ID3Version = 2 THEN 3 ELSE 4
        textframeHeaderSize == IF ID3Version = 2 THEN 6 ELSE 10
        bodyFrameHeader == CopiedOut(textframeHeaderSize, ID3FrameBody, currentPosition)
        frameSizeBuffer == IF ID3Version > 2 THEN SubSeq(bodyFrameHeader, 5, 8)
                           ELSE SubSeq(bodyFrameHeader, 4, 6)
        bodyFrameSize == IF ID3Version = 4 THEN decodeSize(frameSizeBuffer)
                         ELSE readUIntBE(frameSizeBuffer)
        rest == scanFrames(ID3FrameBody, frameSize, ID3Version, strict,
                           currentPosition + bodyFrameSize + textframeHeaderSize)
    IN  IF ~(currentPosition < frameSize - 10 /\ CopiedAt(ID3FrameBody, currentPosition) # 0)
        THEN [kind |-> "ok", frames |-> <<>>]
        ELSE IF bodyFrameSize > frameSize - currentPosition
        THEN [kind |-> "ok", frames |-> <<>>]
        ELSE IF strict /\ currentPosition + textframeHeaderSize > ID3FrameBody.length
        THEN [kind |-> "RangeError", frames |-> <<>>]
        ELSE IF rest.kind # "ok" THEN rest
        ELSE [kind |-> "ok",
              frames |-> << [frameName |-> SubSeq(bodyFrameHeader, 1, identifierSize),
                             body |-> CopiedOut(bodyFrameSize, ID3FrameBody,
                                                currentPosition + textframeHeaderSize)] >>
                         \o rest.frames]

\* read of a Buffer.  strict: the runtime's copy raises a RangeError for a
\* sourceStart past the end of the source (older runtimes copy nothing).
read(bufferToRead, strict) ==
    LET framePosition == getFramePosition(bufferToRead)
        sizeBuffer == Slice(bufferToRead, framePosition, framePosition + 10)
        frameSize == decodeSize(<< ToUint8(At(sizeBuffer, 6)), ToUint8(At(sizeBuffer, 7)),
                                   ToUint8(At(sizeBuffer, 8)), ToUint8(At(sizeBuffer, 9)) >>)
        ID3Frame == Copied(frameSize + 1, bufferToRead, framePosition)
        ID3FrameBody == Copied((frameSize - 10) + 1, bufferToRead, framePosition + 10)
        ID3Version == CopiedAt(ID3Frame, 3)
        Return(decoded) == IF decoded.kind # "ok" THEN Hang ELSE ReturnFrames(decoded.frames)
        Decode(scanned) == IF scanned.kind # "ok" THEN Throw(scanned.kind)
                           ELSE Return(decodeFrames(scanned.frames, ID3Version))
    IN  IF framePosition = 0 - 1 THEN ReturnFrames(<<>>)
        ELSE IF (frameSize - 10) + 1 < 0 THEN Throw("RangeError")
        ELSE IF strict /\ framePosition + 10 > Len(bufferToRead) THEN Throw("RangeError")
        ELSE Decode(scanFrames(ID3FrameBody, frameSize, ID3Version, strict, 0))

\* What a call leaves behind: its outcome and the bytes of the file at the path
\* (unchanged by every call on a Buffer).
Effect(out, file) == [out |-> out, file |-> file]

\* string to the bytes writeFileSync(path, string, "binary") writes
BinaryBytes(s) == [i \in 1..Len(s) |-> s[i] % 256]

\* remove without its check of the size bytes: the bug of truncating at
\* whatever the four bytes decode to
removeUnchecked(isPath, data, file) ==
    LET dataBuffer == IF isPath THEN file ELSE data
        ID3Offset == getFramePosition(dataBuffer)
        hSize == << ToUint8(At(dataBuffer, ID3Offset + 6)), ToUint8(At(dataBuffer, ID3Offset + 7)),
                    ToUint8(At(dataBuffer, ID3Offset + 8)), ToUint8(At(dataBuffer, ID3Offset + 9)) >>
        newData == SliceFrom(data, ID3Offset + decodeSize(hSize) + 10)
    IN  IF ID3Offset = 0 - 1
        THEN Effect(IF isPath THEN Outcome("string", data, <<>>) ELSE ReturnBuffer(data), file)
        ELSE IF isPath THEN Effect(ReturnUndefined, BinaryBytes(newData))
        ELSE Effect(ReturnBuffer(newData), file)

\* remove(data): data is a Buffer (isPath false) or the path of a file holding
\* `file` (isPath true)
remove(isPath, data, file) ==
    LET dataBuffer == IF isPath THEN file ELSE data
        ID3Offset == getFramePosition(dataBuffer)
        hSize == << ToUint8(At(dataBuffer, ID3Offset + 6)), ToUint8(At(dataBuffer, ID3Offset + 7)),
                    ToUint8(At(dataBuffer, ID3Offset + 8)), ToUint8(At(dataBuffer, ID3Offset + 9)) >>
        invalid == \E k \in 1..4 : hSize[k] >= 128
        newData == SliceFrom(data, ID3Offset + decodeSize(hSize) + 10)
    IN  IF ID3Offset = 0 - 1
        THEN Effect(IF isPath THEN Outcome("string", data, <<>>) ELSE ReturnBuffer(data), file)
        ELSE IF invalid THEN Effect(ReturnFalse, file)
        ELSE IF isPath THEN Effect(ReturnUndefined, BinaryBytes(newData))
        ELSE Effect(ReturnBuffer(newData), file)

\* write were it to put the new tag in front of the data as it is, tag included
writeBeforeTag(isPath, fileBuffer, file, frames) ==
    LET currentData == IF isPath THEN file ELSE fileBuffer
        Concatenate(created, removed) ==
            IF created.kind # "Buffer" THEN Effect(created, file)
            ELSE IF removed.kind # "Buffer" THEN Effect(Throw("TypeError"), file)
            ELSE IF isPath THEN Effect(ReturnUndefined, created.bytes \o removed.bytes)
            ELSE Effect(ReturnBuffer(created.bytes \o removed.bytes), file)
    IN  Concatenate(create(frames), ReturnBuffer(currentData))

\* write(fileBuffer, frames)
write(isPath, fileBuffer, file, frames) ==
    LET currentData == IF isPath THEN file ELSE fileBuffer
        Concatenate(created, removed) ==
            IF created.kind # "Buffer" THEN Effect(created, file)
            ELSE IF removed.kind # "Buffer" THEN Effect(Throw("TypeError"), file)
            ELSE IF isPath THEN Effect(ReturnUndefined, created.bytes \o removed.bytes)
            ELSE Effect(ReturnBuffer(created.bytes \o removed.bytes), file)
    IN  Concatenate(create(frames), remove(FALSE, currentData, file).out)

\* update(frames, fileBuffer)
update(isPath, frames, fileBuffer, file, strict) ==
    LET Result(result) ==
            IF isPath /\ Returned(result.out) THEN Effect(ReturnUndefined, result.file)
            ELSE result
        Merge(old) ==
            IF old.kind # "IFrames" THEN Effect(old, file)
            ELSE Result(write(isPath, fileBuffer, file, Spread(old.frames, frames)))
    IN  Merge(read(IF isPath THEN file ELSE fileBuffer, strict))

-----------------------------------------------------------------------------
(* The inputs the calls are made with *)

\* the property mappings passed to create, write and update
TitleA == << <<"title", TextValue(<<65>>)>> >>                                  \* { title: "A" }
TitleC == << <<"title", TextValue(<<67>>)>> >>                                  \* { title: "C" }
TitleArtist == << <<"title", TextValue(<<65>>)>>, <<"artist", TextValue(<<66>>)>> >>
AlbumYear ==                                             \* { album: "Hits", year: "1999" }
    << <<"album", TextValue(<<72, 105, 116, 115>>)>>, <<"year", TextValue(<<49, 57, 57, 57>>)>> >>
LongTitle == << <<"title", TextValue(<<83, 111, 110, 103, 32, 111, 110, 101>>)>> >>   \* "Song one"
Unrecognized == << <<"foo", TextValue(<<120>>)>> >>                             \* { foo: "x" }
TitleUnrecognized == << <<"title", TextValue(<<65>>)>>, <<"foo", TextValue(<<120>>)>> >>
TwoUserTexts ==   \* { userDefinedText: [{description:"a",value:"1"},{description:"b",value:"2"}] }
    << <<"userDefinedText", UserDefinedTextArray(<< <<<<97>>, <<49>>>>, <<<<98>>, <<50>>>> >>)>> >>
OneUserText == << <<"userDefinedText", UserDefinedTextValue(<<97>>, <<49>>)>> >>
Comment ==        \* { comment: { language: "eng", shortText: "s", text: "t" } }
    << <<"comment", SpecialTextValue(<<101, 110, 103>>, <<115>>, <<116>>)>> >>
Jpeg == << <<"image", ImageValue(<<255, 216, 255, 224, 16>>)>> >>
TitlePng ==
    << <<"title", TextValue(<<65>>)>>, <<"image", ImageValue(<<137, 80, 78, 71>>)>> >>

FramesInputs ==
    { <<>>, TitleA, TitleC, TitleArtist, AlbumYear, LongTitle, Unrecognized, TitleUnrecognized,
      TwoUserTexts, OneUserText, Comment, Jpeg, TitlePng }

\* the content that follows a tag: the start of an MPEG audio frame
Audio == <<255, 251, 144, 0>>

RawTag(version, sizeBytes, body) == ID3 \o <<version, 0, 0>> \o sizeBytes \o body
RawFrameV22(frameName, payload) ==
    frameName \o SubSeq(UInt32BE(Len(payload)), 2, 4) \o payload
RawFrameV23(frameName, payload) == FrameHeader(frameName, Len(payload)) \o payload

\* a v2.2 tag holding TT2 "A" and TP1 "B" in the single-byte charset and ten
\* bytes of padding, as another tagger writes it
V22Body ==
    RawFrameV22(ObjGet(textFramesV220, "title"), <<0, 65>>)
        \o RawFrameV22(ObjGet(textFramesV220, "artist"), <<0, 66>>) \o Alloc(10)

V22Tag == RawTag(2, encodeSize(Len(V22Body)), V22Body)

\* a v2.3 tag holding TIT2 "A" in the single-byte charset and ten bytes of padding
V23Body == RawFrameV23(ObjGet(textFrames, "title"), <<0, 65>>) \o Alloc(10)

V23Tag == RawTag(3, encodeSize(Len(V23Body)), V23Body)

\* the v2.3 tag with the frames of V22Tag under their four-letter identifiers:
\* TIT2 "A" and TPE1 "B" with the same payloads and padding
V23PairBody ==
    RawFrameV23(ObjGet(textFrames, "title"), <<0, 65>>)
        \o RawFrameV23(ObjGet(textFrames, "artist"), <<0, 66>>) \o Alloc(10)

V23PairTag == RawTag(3, encodeSize(Len(V23PairBody)), V23PairBody)

\* the frame and the padding of V23Tag under the version 04 00
V24Tag == RawTag(4, encodeSize(Len(V23Body)), V23Body)

\* a v2.2 tag holding TT2 "A", then "B" under TZZ and under XYZ, identifiers
\* that no table has, and ten bytes of padding
UnknownBody ==
    RawFrameV22(ObjGet(textFramesV220, "title"), <<0, 65>>)
        \o RawFrameV22(<<84, 90, 90>>, <<0, 66>>) \o RawFrameV22(<<88, 89, 90>>, <<0, 66>>)
        \o Alloc(10)

UnknownTag == RawTag(2, encodeSize(Len(UnknownBody)), UnknownBody)

\* a v2.2 tag of 26 body bytes: TT2 "A", then a TP1 record that declares a
\* payload of bodyFrameSize bytes and has the 12 bytes 00 "B" 00 .. 00 behind its
\* header: every bodyFrameSize above 12 ends past the end of the body
OverrunBody(bodyFrameSize) ==
    RawFrameV22(ObjGet(textFramesV220, "title"), <<0, 65>>)
        \o ObjGet(textFramesV220, "artist") \o SubSeq(UInt32BE(bodyFrameSize), 2, 4)
        \o <<0, 66>> \o Alloc(10)

OverrunTag(bodyFrameSize) ==
    RawTag(2, encodeSize(Len(OverrunBody(bodyFrameSize))), OverrunBody(bodyFrameSize))

\* the payload sizes declared: one byte too many, and far too many
OverrunSizes == {13, 100}

\* a v2.2 tag whose 24 body bytes are exactly the records TT2 "A", TP1 "B" and
\* TAL "C", without padding
ExactBody ==
    RawFrameV22(ObjGet(textFramesV220, "title"), <<0, 65>>)
        \o RawFrameV22(ObjGet(textFramesV220, "artist"), <<0, 66>>)
        \o RawFrameV22(ObjGet(textFramesV220, "album"), <<0, 67>>)

ExactTag == RawTag(2, encodeSize(Len(ExactBody)), ExactBody)

\* a v2.3 tag holding a COMM frame in the double-byte charset whose short text
\* "A" has no terminator (01 "eng" FF FE 41 00), and ten bytes of padding
UnterminatedBody ==
    RawFrameV23(COMM, <<1, 101, 110, 103, 255, 254, 65, 0>>) \o Alloc(10)

UnterminatedTag == RawTag(3, encodeSize(Len(UnterminatedBody)), UnterminatedBody)

EmptyTag == RawTag(3, <<0, 0, 0, 0>>, <<>>)

\* a tag of declared size 4 whose k-th size byte has bit 7 set
BadSizeTag(k) == RawTag(3, [i \in 1..4 |-> IF i = k THEN 128 ELSE IF i = 4 THEN 4 ELSE 0], Alloc(4))

\* the largest offset at which the inputs place a tag
MaxOffset == 21

\* the offsets tried: the first two and the last three
Offsets == {0, 1} \cup ((MaxOffset - 2)..MaxOffset)

Padding(n) == [i \in 1..n |-> 255]

Sources ==
    { <<>>, Audio, ID3, Audio \o ID3, SubSeq(EmptyTag, 1, 9),
      EmptyTag, EmptyTag \o Audio, EmptyTag \o EmptyTag \o Audio,
      EmptyTag \o BadSizeTag(1) \o Audio,
      V23Tag \o Audio, V22Tag \o V23Tag \o Audio,
      V23PairTag \o Audio, V24Tag \o Audio, UnknownTag \o Audio,
      ExactTag \o Audio, UnterminatedTag \o Audio }
    \cup { BadSizeTag(k) \o Audio : k \in 1..4 }
    \cup { OverrunTag(bodyFrameSize) \o Audio : bodyFrameSize \in OverrunSizes }
    \cup { Padding(n) \o V22Tag \o Audio : n \in Offsets }
    \cup { Padding(n) \o EmptyTag \o Audio : n \in Offsets \ {0} }

SongPath == <<46, 47, 115, 111, 110, 103, 46, 109, 112, 51>>   \* "./song.mp3"

-----------------------------------------------------------------------------
(* The calls *)

\* no size is on its way
NoSize == [totalSize |-> 0, bytes |-> <<>>, decoded |-> Undef]

\* no alias or identifier is on its way
NoLookup == [alias |-> "", frameName |-> <<>>, found |-> ""]

\* no frame is on its way
NoFrame == [step |-> "none", frameName |-> <<>>, version |-> 3, image |-> <<>>,
            value |-> EmptyObjectValue, frame |-> <<>>, payload |-> <<>>,
            decoded |-> DecodedUndefined]

Call(op, source, frames, out) == [op |-> op, source |-> source, frames |-> frames, out |-> out]

Init ==
    /\ strictCopy \in BOOLEAN
    /\ mode \in {"bytes", "path"}
    /\ path = SongPath
    /\ content \in Sources
    /\ call = Call("none", <<>>, <<>>, NoCall)
    /\ prev = call
    /\ calls = 0
    /\ sizing = NoSize
    /\ lookup = NoLookup
    /\ framing = NoFrame

isPath == mode = "path"

\* the argument that names the content: the Buffer itself, or the file's path
Argument == IF isPath THEN path ELSE content

\* the caller goes on with the Buffer a call returned, and the file holds what
\* a call wrote to it
After(effect) ==
    IF isPath THEN effect.file
    ELSE IF effect.out.kind = "Buffer" THEN effect.out.bytes
    ELSE content

\* the longest series of calls followed
MaxCalls == 2

\* a call can be made: the last one returned or raised, and the series goes on
Running == call.out.kind # "hang" /\ calls < MaxCalls

\* Create were the instance to keep the properties of the call before and add
\* them to those of this call
CreateRemembering(frames) ==
    /\ Running
    /\ \E effect \in {Effect(create(Spread(call.frames, frames)), content)} :
           /\ call' = Call("create", content, frames, effect.out)
           /\ content' = After(effect)
    /\ prev' = call
    /\ calls' = calls + 1
    /\ UNCHANGED <<strictCopy, mode, path, sizing, lookup, framing>>

Create(frames) ==
    /\ Running
    /\ \E effect \in {Effect(create(frames), content)} :
           /\ call' = Call("create", content, frames, effect.out)
           /\ content' = After(effect)
    /\ prev' = call
    /\ calls' = calls + 1
    /\ UNCHANGED <<strictCopy, mode, path, sizing, lookup, framing>>

Read ==
    /\ Running
    /\ call' = Call("read", content, <<>>, read(content, strictCopy))
    /\ prev' = call
    /\ calls' = calls + 1
    /\ UNCHANGED <<strictCopy, mode, path, content, sizing, lookup, framing>>

Write(frames) ==
    /\ Running
    /\ \E effect \in {write(isPath, Argument, content, frames)} :
           /\ call' = Call("write", content, frames, effect.out)
           /\ content' = After(effect)
    /\ prev' = call
    /\ calls' = calls + 1
    /\ UNCHANGED <<strictCopy, mode, path, sizing, lookup, framing>>

Remove ==
    /\ Running
    /\ \E effect \in {remove(isPath, Argument, content)} :
           /\ call' = Call("remove", content, <<>>, effect.out)
           /\ content' = After(effect)
    /\ prev' = call
    /\ calls' = calls + 1
    /\ UNCHANGED <<strictCopy, mode, path, sizing, lookup, framing>>

Update(frames) ==
    /\ Running
    /\ \E effect \in {update(isPath, frames, Argument, content, strictCopy)} :
           /\ call' = Call("update", content, frames, effect.out)
           /\ content' = After(effect)
    /\ prev' = call
    /\ calls' = calls + 1
    /\ UNCHANGED <<strictCopy, mode, path, sizing, lookup, framing>>

Next ==
    \/ \E frames \in FramesInputs : Create(frames)
    \/ Read
    \/ \E frames \in FramesInputs : Write(frames)
    \/ Remove
    \/ \E frames \in FramesInputs : Update(frames)

Spec == Init /\ [][Next]_vars


-----------------------------------------------------------------------------
(* The size bytes of the tag header, on their own *)

\* one past the largest size four 7-bit bytes hold
SizeLimit == 2 ^ 28

\* The sizes tried: one non-zero 7-bit digit at each of the four positions, the
\* sizes next to those (whose lower digits are all ones, or carry a one), and
\* the same digit at all four positions.
Sizes ==
    ({ ((2 ^ (7 * j)) * k) + d : j \in 0..3, k \in 0..127, d \in {0 - 1, 0, 1} }
        \cup { k * ((2 ^ 21) + (2 ^ 14) + (2 ^ 7) + 1) : k \in 0..127 })
    \cap (0..(SizeLimit - 1))

SizeInit ==
    /\ strictCopy = FALSE
    /\ mode = "bytes"
    /\ path = SongPath
    /\ content = <<>>
    /\ call = Call("none", <<>>, <<>>, NoCall)
    /\ prev = call
    /\ calls = 0
    /\ \E totalSize \in Sizes : sizing = [NoSize EXCEPT !.totalSize = totalSize]
    /\ lookup = NoLookup
    /\ framing = NoFrame

\* create writes the size into the header (index.ts lines 76..91)
EncodeSize ==
    /\ sizing.bytes = <<>>
    /\ sizing' = [sizing EXCEPT !.bytes = encodeSize(sizing.totalSize)]
    /\ UNCHANGED <<strictCopy, mode, path, content, call, prev, calls, lookup, framing>>

\* read and remove decode the four bytes
DecodeSize ==
    /\ sizing.bytes # <<>>
    /\ sizing.decoded = Undef
    /\ sizing' = [sizing EXCEPT !.decoded = decodeSize(sizing.bytes)]
    /\ UNCHANGED <<strictCopy, mode, path, content, call, prev, calls, lookup, framing>>

SizeNext == EncodeSize \/ DecodeSize

SizeSpec == SizeInit /\ [][SizeNext]_vars

-----------------------------------------------------------------------------
(* The frame tables, on their own *)

\* the pairs << alias, identifier >> of a table
Entries(table) == { table[i] : i \in 1..Len(table) }

\* the tables of the identifiers with four letters and with three
FramesV230 == Entries(textFrames) \cup Entries(specialFrames)
FramesV220 == Entries(textFramesV220) \cup Entries(specialFramesV220)

\* An alias to convert to its identifier and back, or an identifier of one of
\* the tables to convert to its alias.
LookupInit ==
    /\ strictCopy = FALSE
    /\ mode = "bytes"
    /\ path = SongPath
    /\ content = <<>>
    /\ call = Call("none", <<>>, <<>>, NoCall)
    /\ prev = call
    /\ calls = 0
    /\ sizing = NoSize
    /\ \/ \E entry \in FramesV230 \cup FramesV220 : lookup = [NoLookup EXCEPT !.alias = entry[1]]
       \/ \E entry \in FramesV230 \cup FramesV220 : lookup = [NoLookup EXCEPT !.frameName = entry[2]]
    /\ framing = NoFrame

\* the encoder converts the alias of a property (part_000 line 23)
ConvertAliasToName ==
    /\ lookup.alias # ""
    /\ lookup.frameName = <<>>
    /\ lookup' = [lookup EXCEPT !.frameName = convertAliasToName(lookup.alias)]
    /\ UNCHANGED <<strictCopy, mode, path, content, call, prev, calls, sizing, framing>>

\* the decoder converts the identifier of a frame (frameDecoder.ts line 31)
ConvertNameToAlias ==
    /\ lookup.frameName # <<>>
    /\ lookup.found = ""
    /\ lookup' = [lookup EXCEPT !.found = convertNameToAlias(lookup.frameName)]
    /\ UNCHANGED <<strictCopy, mode, path, content, call, prev, calls, sizing, framing>>

LookupNext == ConvertAliasToName \/ ConvertNameToAlias

LookupSpec == LookupInit /\ [][LookupNext]_vars

-----------------------------------------------------------------------------
(* The special frames, on their own *)

\* the longest image encoded, and the longest field of a payload decoded
MaxImage == 4
MaxField == 6

\* the byte sequences of a length up to n over the bytes given
BytesUpTo(n, bytes) == UNION { [1..k -> bytes] : k \in 0..n }

\* the images: the first bytes of a JPEG (FF D8 FF) and of a PNG (89), and what
\* is close to them
Images == BytesUpTo(MaxImage, {255, 216, 137})

\* the payloads of another tagger: an encoding byte and then zero bytes, "A",
\* and the bytes of a byte order mark
Payloads == { <<encodingByte>> \o field :
                encodingByte \in {0, 1}, field \in BytesUpTo(MaxField, {0, 65, 254, 255}) }

\* the comments and lyrics: no language, languages of 0 to 4 letters, and short
\* texts and texts that are absent, empty or of one or two letters
SpecialTexts ==
    { SpecialTextValue(language, shortText, text) :
        language \in {UndefStr, <<>>, <<101>>, <<101, 110>>, <<101, 110, 103>>,
                      <<100, 101, 117, 116>>},
        shortText \in {UndefStr, <<>>, <<115>>, <<115, 116>>},
        text \in {UndefStr, <<>>, <<116>>, <<65, 66>>} }

\* An image or a comment or lyrics to make a frame of, or the payload of a special
\* text frame to decode.
FrameInit ==
    /\ strictCopy = FALSE
    /\ mode = "bytes"
    /\ path = SongPath
    /\ content = <<>>
    /\ call = Call("none", <<>>, <<>>, NoCall)
    /\ prev = call
    /\ calls = 0
    /\ sizing = NoSize
    /\ lookup = NoLookup
    /\ \/ \E apicData \in Images :
             framing = [NoFrame EXCEPT !.step = "encode", !.frameName = APIC, !.image = apicData,
                                       !.value = ImageValue(apicData)]
       \/ \E frameName \in {COMM, USLT}, data \in SpecialTexts :
             framing = [NoFrame EXCEPT !.step = "encode", !.frameName = frameName, !.value = data]
       \/ \E frameName \in {COMM, USLT, TXXX}, data \in Payloads :
             framing = [NoFrame EXCEPT !.step = "decode", !.frameName = frameName, !.payload = data]

\* encodeFrames makes the frame of the value (part_000 lines 27..31); its
\* payload is what follows the 10 bytes of the header
CreateSpecialFrame ==
    /\ framing.step = "encode"
    /\ \E frame \in {createSpecialFrame(framing.frameName, framing.value)} :
           framing' = [framing EXCEPT !.step = "decode", !.frame = frame,
                                      !.payload = SliceFrom(frame, 10)]
    /\ UNCHANGED <<strictCopy, mode, path, content, call, prev, calls, sizing, lookup>>

\* decodeFrames decodes the payload (frameDecoder.ts line 38)
ReadSpecialFrame ==
    /\ framing.step = "decode"
    /\ framing' = [framing EXCEPT
                      !.step = "done",
                      !.decoded = readSpecialFrame(framing.frameName, framing.payload,
                                                   framing.version)]
    /\ UNCHANGED <<strictCopy, mode, path, content, call, prev, calls, sizing, lookup>>

FrameNext == CreateSpecialFrame \/ ReadSpecialFrame

FrameSpec == FrameInit /\ [][FrameNext]_vars

-----------------------------------------------------------------------------
(* The properties checked *)

\* two mappings with the same keys and the same value under each key
SameMapping(a, b) ==
    /\ ObjKeys(a) = ObjKeys(b)
    /\ \A k \in ObjKeys(a) : ObjGet(a, k) = ObjGet(b, k)

\* the mappings built only from single-valued plain-text aliases
PlainTextInputs ==
    { frames \in FramesInputs :
        /\ frames # <<>>
        /\ \A i \in 1..Len(frames) :
              ObjHas(textFrames, frames[i][1]) /\ frames[i][2].kind = "string" }

\* the last two calls were create(frames) and then read of the Buffer it returned
ReadOfCreated(frames) ==
    /\ prev.op = "create" /\ prev.frames = frames /\ prev.out.kind = "Buffer"
    /\ call.op = "read" /\ call.source = prev.out.bytes

\* C1: read(create(m)) returns m, the same aliases with the same string values,
\* for every mapping m of single-valued plain-text aliases.
C1_RoundTrip ==
    \A m \in PlainTextInputs :
        ReadOfCreated(m) => call.out.kind = "IFrames" /\ SameMapping(call.out.frames, m)

\* read(create({ title: "A" })) raises a RangeError where the copy rejects a
\* sourceStart past the end, and otherwise returns { undefined: "" }
C1_TitleLost ==
    /\ ReadOfCreated(TitleA)
    /\ IF strictCopy THEN call.out = Throw("RangeError")
       ELSE call.out = ReturnFrames(<< <<"undefined", TextValue(<<>>)>> >>)

\* the mapping a tag written by another tagger holds: { title: "A", artist: "B" }
TitleArtistTagged == V22Tag \o Audio

\* the last two calls were update(frames) on the Buffer source, which returned
\* a Buffer, and then read of that Buffer
ReadOfUpdated(source, frames) ==
    /\ mode = "bytes"
    /\ prev.op = "update" /\ prev.source = source /\ prev.frames = frames
    /\ prev.out.kind = "Buffer"
    /\ call.op = "read" /\ call.source = prev.out.bytes

\* C2: after update of a source with a mapping, the read-back holds every
\* property the source read as, with the value the mapping gives it if it names
\* it and unchanged otherwise, and every property of the mapping: for the
\* source that reads as { title: "A", artist: "B" } and the mapping
\* { title: "C" } it is { title: "C", artist: "B" }.
C2_UpdatePreserves ==
    \A frames \in FramesInputs :
        \E old \in {read(prev.source, strictCopy)} :
            (ReadOfUpdated(prev.source, frames) /\ old.kind = "IFrames")
                => /\ call.out.kind = "IFrames"
                   /\ SameMapping(call.out.frames, Spread(old.frames, frames))

\* the source reads as { title: "A", artist: "B" }, and after
\* update({ title: "C" }) neither of the two properties is read back
C2_ArtistLost ==
    /\ ReadOfUpdated(TitleArtistTagged, TitleC)
    /\ read(TitleArtistTagged, strictCopy) = ReturnFrames(TitleArtist)
    /\ IF strictCopy THEN call.out = Throw("RangeError")
       ELSE ~ObjHas(call.out.frames, "title") /\ ~ObjHas(call.out.frames, "artist")

\* the mappings whose every key is a recognized alias
RecognizedInputs ==
    { frames \in FramesInputs :
        \A i \in 1..Len(frames) : ObjHas(currentFramesByAlias, frames[i][1]) }

\* the offset of the first "ID3" marker of a buffer, -1 if it has none
FirstMarker(buffer) == IndexOf(buffer, ID3, 0)

\* the four size bytes of the tag found at an offset (a byte past the end of
\* the buffer counts as zero)
SizeBytesAt(buffer, offset) == [k \in 1..4 |-> ToUint8(At(buffer, (offset + 5) + k))]

\* strip(source), as the specification defines it: the source itself when no
\* tag is located, otherwise the suffix after the located tag's extent
Strip(source) ==
    LET offset == getFramePosition(source)
    IN  IF offset = 0 - 1 THEN source
        ELSE SliceFrom(source, (offset + 10) + decodeSize(SizeBytesAt(source, offset)))

\* C3: write(source, properties) on a Buffer returns create(properties)
\* followed by strip(source), for every source and every mapping of
\* recognized aliases.
C3_WriteIsCreateThenStrip ==
    \A frames \in RecognizedInputs :
        (mode = "bytes" /\ call.op = "write" /\ call.frames = frames)
            => \E tag \in {create(frames)} :
                   /\ tag.kind = "Buffer"
                   /\ call.out = ReturnBuffer(tag.bytes \o Strip(call.source))

\* write({ title: "A" }) on a Buffer whose tag has a size byte with bit 7 set
\* raises a TypeError
C3_WriteRaises ==
    /\ mode = "bytes"
    /\ call.op = "write" /\ call.frames = TitleA /\ call.source = BadSizeTag(1) \o Audio
    /\ call.out = Throw("TypeError")

\* the last two calls were remove of a Buffer, which returned a Buffer, and
\* remove of that Buffer
RemovedTwice ==
    /\ mode = "bytes"
    /\ prev.op = "remove" /\ prev.out.kind = "Buffer"
    /\ call.op = "remove" /\ call.source = prev.out.bytes

\* C4: remove(remove(x)) = remove(x) for every Buffer x.
C4_RemoveIdempotent == RemovedTwice => call.out = prev.out

\* of two tags in a row remove strips one at a time
C4_SecondTagRemoved ==
    /\ RemovedTwice
    /\ prev.source = (EmptyTag \o EmptyTag) \o Audio
    /\ prev.out = ReturnBuffer(EmptyTag \o Audio)
    /\ call.out = ReturnBuffer(Audio)

\* no "ID3" marker starts at the offsets 0..19 of the source of the last call
NoMarkerInFirst20 == FirstMarker(call.source) = 0 - 1 \/ FirstMarker(call.source) >= 20

\* C5: when no "ID3" marker starts within the first 20 bytes of a Buffer, read
\* returns an empty mapping and remove returns the Buffer unchanged.
C5_AbsenceSafety ==
    (mode = "bytes" /\ NoMarkerInFirst20)
        => /\ call.op = "read" => call.out = ReturnFrames(<<>>)
           /\ call.op = "remove" => call.out = ReturnBuffer(call.source)

\* a tag whose marker starts at offset 20 is read and removed
C5_TagAtOffset20 ==
    /\ mode = "bytes"
    /\ prev.op = "read" /\ prev.source = (Padding(20) \o V22Tag) \o Audio
    /\ prev.out = ReturnFrames(TitleArtist)
    /\ call.op = "remove" /\ call.source = prev.source
    /\ call.out = ReturnBuffer(Audio)

\* remove was called on content in which a tag is located
RemoveOfTagged == call.op = "remove" /\ FirstMarker(call.source) \in 0..20

\* C6: when a tag is located and one of its four size bytes has bit 7 set,
\* remove returns the failure value false, neither raising nor returning
\* content, and the content (the file, in the path variant) stays as it was;
\* when all four have bit 7 clear, remove of a Buffer returns the bytes from
\* offset tagOffset + 10 + decodeSize(size bytes) on.
C6_RemoveChecksSizeBytes ==
    RemoveOfTagged =>
        \E offset \in {FirstMarker(call.source)} :
            \E sizeBytes \in {SizeBytesAt(call.source, offset)} :
                IF \E k \in 1..4 : sizeBytes[k] >= 128
                THEN call.out = ReturnFalse /\ content = call.source
                ELSE mode = "bytes" =>
                        call.out = ReturnBuffer(
                            SliceFrom(call.source, (offset + 10) + decodeSize(sizeBytes)))

\* remove of a Buffer of two tags returned the bytes after the first, and
\* remove of those, whose tag has a size byte with bit 7 set, returned false
C6_InvalidSizeReported ==
    /\ mode = "bytes"
    /\ prev.op = "remove" /\ prev.source = (EmptyTag \o BadSizeTag(1)) \o Audio
    /\ prev.out = ReturnBuffer(BadSizeTag(1) \o Audio)
    /\ RemoveOfTagged /\ call.source = prev.out.bytes
    /\ call.out = ReturnFalse /\ content = call.source

\* the size the tag located in the source of the last call declares
DeclaredSize ==
    decodeSize(SizeBytesAt(call.source, FirstMarker(call.source)))

\* C7: read of a buffer holding a tag whose declared body size is 0, or too
\* small to hold a frame, returns an empty mapping and raises nothing.
C7_ReadOfEmptyBody ==
    (call.op = "read" /\ FirstMarker(call.source) \in 0..19
        /\ Len(call.source) >= FirstMarker(call.source) + 10 /\ DeclaredSize < 10)
        => call.out = ReturnFrames(<<>>)

\* read(create({})) raises a RangeError
C7_ReadOfCreatedEmptyRaises ==
    /\ ReadOfCreated(<<>>)
    /\ call.source = EmptyTag
    /\ call.out = Throw("RangeError")

\* the properties of a mapping whose key is a recognized alias
Recognized(frames) == SelectSeq(frames, LAMBDA entry : ObjHas(currentFramesByAlias, entry[1]))

\* C8: create of a mapping with an unrecognized key raises nothing and returns
\* the tag block of the recognized properties; neither does write, on a source
\* without a tag, raise.
C8_UnrecognizedSkipped ==
    /\ call.op = "create"
          => \E tag \in {create(Recognized(call.frames))} : call.out = tag /\ tag.kind = "Buffer"
    /\ (call.op = "write" /\ FirstMarker(call.source) = 0 - 1)
          => ~(call.out.kind \in {"TypeError", "RangeError"})

\* create({ foo: "x" }) raises a TypeError
C8_UnrecognizedRaises ==
    /\ call.op = "create" /\ call.frames = Unrecognized
    /\ call.out = Throw("TypeError")

\* C9: for every size n in [0, 2^28), each of the four bytes create writes for
\* n is below 0x80, and decodeSize of the four returns n.
C9_SizeRoundTrip ==
    /\ sizing.totalSize \in 0..(SizeLimit - 1)
    /\ sizing.bytes # <<>> => \A k \in 1..4 : sizing.bytes[k] \in 0..127
    /\ sizing.decoded # Undef => sizing.decoded = sizing.totalSize

\* the largest size went through the four bytes 7F 7F 7F 7F and back
C9_LargestSizeDecoded ==
    /\ sizing.totalSize = SizeLimit - 1
    /\ sizing.bytes = <<127, 127, 127, 127>>
    /\ sizing.decoded = SizeLimit - 1

\* C10: create of userDefinedText = [{description: "a", value: "1"},
\* {description: "b", value: "2"}] followed by read yields userDefinedText as the
\* sequence of those two records in that order.
C10_UserDefinedTextAccumulates ==
    ReadOfCreated(TwoUserTexts) => call.out = ReturnFrames(TwoUserTexts)

\* the first record is read back, the second as { description: "\u00FF",
\* value: "" }, whichever way the runtime copies
C10_SecondRecordLost ==
    /\ ReadOfCreated(TwoUserTexts)
    /\ strictCopy
    /\ call.out = ReturnFrames(
           << <<"userDefinedText",
                UserDefinedTextArray(<< <<<<97>>, <<49>>>>, <<<<255>>, <<>>>> >>)>> >>)
    /\ call.out = read(call.source, FALSE)

\* the v2.2 tags of the inputs, each with the v2.3 tag that holds the same
\* payloads under the corresponding four-letter identifiers
VersionPairs == { [v22 |-> V22Tag \o Audio, v23 |-> V23PairTag \o Audio] }

\* C11: a v2.2 tag and the v2.3 tag with the corresponding identifiers and the
\* same payloads are read into mappings with the same aliases and the same values.
C11_VersionsReadAlike ==
    \A pair \in VersionPairs :
        call.op = "read" /\ call.source = pair.v23 =>
            /\ call.out.kind = "IFrames"
            /\ \E old \in {read(pair.v22, strictCopy)} :
                  old.kind = "IFrames" /\ SameMapping(call.out.frames, old.frames)

\* the v2.2 tag is read as { title: "A", artist: "B" } and its v2.3
\* counterpart as { undefined: "B" }
C11_FourLetterFramesUnnamed ==
    /\ call.op = "read" /\ call.source = V23PairTag \o Audio
    /\ read(V22Tag \o Audio, strictCopy) =
           ReturnFrames(<< <<"title", TextValue(<<65>>)>>, <<"artist", TextValue(<<66>>)>> >>)
    /\ call.out = ReturnFrames(<< <<"undefined", TextValue(<<66>>)>> >>)

\* the identifier was found in the table and converted to the alias found
FoundFor(entry) == lookup.alias = "" /\ lookup.frameName = entry[2] /\ lookup.found # ""

\* C12: convertNameToAlias(convertAliasToName(a)) = a for every recognized alias
\* a, and convertNameToAlias returns its alias for every identifier of the v2.2
\* table and of the v2.3 table.
C12_TablesInverse ==
    /\ \A entry \in FramesV230 :
          lookup.alias = entry[1] /\ lookup.found # "" => lookup.found = lookup.alias
    /\ \A entry \in FramesV220 : FoundFor(entry) => lookup.found = entry[1]
    /\ \A entry \in FramesV230 : FoundFor(entry) => lookup.found = entry[1]

\* the alias title converts to TIT2, and TIT2 to undefined
C12_TitleNotFound ==
    lookup = [alias |-> "title", frameName |-> <<84, 73, 84, 50>>, found |-> "undefined"]

\* what the variant for a Buffer of the last call comes to, given the content the
\* file had before the call
OfBuffer ==
    IF call.op = "write" THEN write(FALSE, call.source, call.source, call.frames).out
    ELSE IF call.op = "update"
    THEN update(FALSE, call.frames, call.source, call.source, strictCopy).out
    ELSE remove(FALSE, call.source, call.source).out

\* C13: after write, update or remove of a path the file holds exactly the bytes
\* the variant for a Buffer returns for the file's previous content, and the
\* call returns undefined, also when the file holds no tag.
C13_PathAsBuffer ==
    isPath /\ call.op \in {"write", "update", "remove"} =>
        \E ofBuffer \in {OfBuffer} :
            ofBuffer.kind = "Buffer" => call.out = ReturnUndefined /\ content = ofBuffer.bytes

\* remove of the path of a file that holds a v2.3 tag and audio bytes writes a
\* slice of the path to the file, where remove of a Buffer returns the audio bytes
C13_RemoveWritesPath ==
    /\ isPath /\ call.op = "remove" /\ call.source = V23Tag \o Audio
    /\ call.out = ReturnUndefined
    /\ content = SliceFrom(path, 10 + Len(V23Body))
    /\ OfBuffer = ReturnBuffer(Audio)

ImageJpeg == <<105, 109, 97, 103, 101, 47, 106, 112, 101, 103>>   \* "image/jpeg"
ImagePng == <<105, 109, 97, 103, 101, 47, 112, 110, 103>>         \* "image/png"

\* the first three bytes are those of a JPEG
StartsAsJpeg(image) == Len(image) >= 3 /\ SubSeq(image, 1, 3) = <<255, 216, 255>>

\* an image has been made a frame of
ImageFramed == framing.frameName = APIC /\ framing.step \in {"decode", "done"} /\ framing.frame # <<>>

\* the MIME type of the frame: the bytes after the encoding byte up to the first
\* zero byte
MimeOf(payload) == Slice(payload, 1, IndexOf(payload, <<0>>, 1))

\* C14: the frame of an image carries "image/jpeg" exactly when the first three
\* bytes of the image are FF D8 FF and "image/png" otherwise, also for an image
\* of less than three bytes; the picture-type byte is 3; the declared size is the
\* length of the prefix plus the length of the image.
C14_ImageFrame ==
    ImageFramed =>
        \E mime \in {MimeOf(framing.payload)} :
            /\ mime = (IF StartsAsJpeg(framing.image) THEN ImageJpeg ELSE ImagePng)
            /\ At(framing.payload, Len(mime) + 2) = 3
            /\ readUIntBE(Slice(framing.frame, 4, 8)) = (Len(mime) + 4) + Len(framing.image)
            /\ SliceFrom(framing.payload, Len(mime) + 4) = framing.image
            /\ Len(framing.frame) = 10 + readUIntBE(Slice(framing.frame, 4, 8))

\* the frame of the two bytes FF D8 carries "image/png", a picture type 3 and
\* the size 15
C14_TwoBytesArePng ==
    /\ ImageFramed
    /\ framing.image = <<255, 216>>
    /\ framing.frame = APIC \o <<0, 0, 0, 15, 0, 0>> \o <<0>> \o ImagePng \o <<0, 3, 0>> \o <<255, 216>>

\* the frame made of an image has been decoded
ImageDecoded == ImageFramed /\ framing.step = "done"

\* C15: decoding the payload of the frame the encoder makes of an image yields
\* exactly that image.
C15_ImageRoundTrip == ImageDecoded => framing.decoded = Decoded(ImageValue(framing.image))

\* the image FF D8 FF comes back as the end of the MIME type, "e/jpeg", the
\* zero and picture-type bytes and then the image
C15_MimeBytesInImage ==
    /\ ImageDecoded
    /\ framing.image = <<255, 216, 255>>
    /\ framing.decoded =
           Decoded(ImageValue(SubSeq(ImageJpeg, 5, 10) \o <<0, 3, 0>> \o framing.image))

\* the tag block of the last call: the start of the Buffer returned, or of the
\* file written
Produced ==
    IF call.out.kind = "Buffer" THEN call.out.bytes
    ELSE IF isPath /\ call.out = ReturnUndefined THEN content
    ELSE <<>>

\* C16: every tag block create, write or update produces starts with "ID3", the
\* version byte 3, the revision byte 0 and the flags byte 0, whatever the
\* version of the tag in the source.
C16_HeaderIsV230 ==
    call.op \in {"create", "write", "update"} /\ Produced # <<>> =>
        Slice(Produced, 0, 6) = <<73, 68, 51, 3, 0, 0>>

\* update of a Buffer with a v2.2 tag returns a v2.3.0 tag block
C16_OtherVersionRewritten ==
    /\ call.op = "update" /\ call.out.kind = "Buffer"
    /\ At(call.source, 3) = 2
    /\ Slice(call.source, 0, 3) = ID3
    /\ Slice(call.out.bytes, 0, 6) = <<73, 68, 51, 3, 0, 0>>

\* the aliases of the tables
RecognizedAliases == { entry[1] : entry \in FramesV230 \cup FramesV220 }

\* C17: every key of the mapping read returns is an alias of the tables; a frame
\* whose identifier is in no table adds no entry.
C17_KeysAreAliases ==
    call.op = "read" /\ call.out.kind = "IFrames" =>
        ObjKeys(call.out.frames) \subseteq RecognizedAliases

\* the frame TZZ is read into the key undefined, the frame XYZ into none
C17_UnknownTextFrameKept ==
    /\ call.op = "read" /\ call.source = UnknownTag \o Audio
    /\ call.out = ReturnFrames(<< <<"title", TextValue(<<65>>)>>,
                                  <<"undefined", TextValue(<<66>>)>> >>)

\* the index at which the first terminated field of a special frame starts:
\* after the encoding byte, and in COMM and USLT after the language too
FieldStart(frameName) == IF frameName = TXXX THEN 1 ELSE 4

\* no terminator from the start of the field on: no zero byte in the
\* single-byte charset, no pair of zero bytes in the double-byte one
Unterminated(frameName, data) ==
    IF At(data, 0) = 0 THEN IndexOf(data, <<0>>, FieldStart(frameName)) = 0 - 1
    ELSE IndexOf(data, <<0, 0>>, FieldStart(frameName)) = 0 - 1

\* the payload of another tagger has been decoded
PayloadDecoded == framing.step = "done" /\ framing.frameName \in {COMM, USLT, TXXX}

\* C18: decoding a COMM, USLT or TXXX frame whose field has no terminator yields
\* an empty result and raises no error, in both charsets.
C18_UnterminatedIsEmpty ==
    PayloadDecoded /\ Unterminated(framing.frameName, framing.payload) =>
        framing.decoded \in {Decoded(EmptyObjectValue), DecodedUndefined}

\* the decoder never returns from the COMM payload 01 "AAA" FF FE, and reads
\* the payload 00 "AAA" "A" as the language AAA, the short text AAA and the
\* text AAAA
C18_UnterminatedHangs ==
    /\ PayloadDecoded
    /\ framing.frameName = COMM
    /\ framing.payload = <<1, 65, 65, 65, 255, 254>>
    /\ framing.decoded = DecodedHang
    /\ readSpecialFrame(COMM, <<0, 65, 65, 65, 65>>, 3) =
           Decoded(SpecialTextValue(<<65, 65, 65>>, <<65, 65, 65>>, <<65, 65, 65, 65>>))

\* C19: when the payload a record declares ends past the end of the declared
\* tag body, read drops that record and stops scanning, raises no error, and
\* returns the records scanned before it.
C19_OverrunDropped ==
    \A bodyFrameSize \in OverrunSizes :
        call.op = "read" /\ call.source = OverrunTag(bodyFrameSize) \o Audio =>
            call.out = ReturnFrames(<< <<"title", TextValue(<<65>>)>> >>)

\* the TP1 record that declares 13 bytes where 12 are left is read as the artist
\* "B"
C19_OverrunByOneKept ==
    /\ call.op = "read" /\ call.source = OverrunTag(13) \o Audio
    /\ Len(OverrunBody(13)) = 26
    /\ call.out = ReturnFrames(<< <<"title", TextValue(<<65>>)>>, <<"artist", TextValue(<<66>>)>> >>)

\* C20: of a tag whose declared body is exactly filled by complete records, read
\* yields every record, in order, with exactly its payload bytes: none of the
\* last records is skipped, cut or filled with zero bytes.
C20_ExactFillRead ==
    call.op = "read" /\ call.source = ExactTag \o Audio =>
        call.out = ReturnFrames(<< <<"title", TextValue(<<65>>)>>,
                                   <<"artist", TextValue(<<66>>)>>,
                                   <<"album", TextValue(<<67>>)>> >>)

\* of the 24 body bytes read keeps 15: the payload of TP1 is cut to its encoding
\* byte and TAL is not scanned
C20_LastRecordsLost ==
    /\ call.op = "read" /\ call.source = ExactTag \o Audio
    /\ Len(ExactBody) = 24
    /\ call.out = ReturnFrames(<< <<"title", TextValue(<<65>>)>>, <<"artist", TextValue(<<>>)>> >>)

\* The identifiers of the frames that tile a tag body, each frame a 10-byte
\* header and as many payload bytes as its size field says; the identifier
\* <<>> stands for bytes that are no such frame.
RECURSIVE FrameNamesOf(_)
FrameNamesOf(body) ==
    IF body = <<>> THEN <<>>
    ELSE IF Len(body) < 10 \/ 10 + readUIntBE(Slice(body, 4, 8)) > Len(body) THEN << <<>> >>
    ELSE << Slice(body, 0, 4) >> \o FrameNamesOf(SliceFrom(body, 10 + readUIntBE(Slice(body, 4, 8))))

\* the identifiers of the frames of a mapping, in the order of its properties:
\* one per property, and one per record of userDefinedText
RECURSIVE NamesOf(_)
NamesOf(frames) ==
    IF frames = <<>> THEN <<>>
    ELSE LET frameName == convertAliasToName(Head(frames)[1])
             count == IF frameName = TXXX THEN Len(Head(frames)[2].items) ELSE 1
         IN  [i \in 1..count |-> frameName] \o NamesOf(Tail(frames))

\* create was called with recognized aliases and returned
CreatedOfRecognized ==
    call.op = "create" /\ call.frames \in RecognizedInputs /\ call.out.kind = "Buffer"

\* C21: in create(m), for m over recognized aliases, the size in the header
\* bytes 6..9 is the length of the block less 10, the frames are in the order of
\* the properties, and the size field of each frame is the number of payload
\* bytes behind its 10-byte header.
C21_TagSelfConsistent ==
    call.op = "create" /\ call.frames \in RecognizedInputs =>
        /\ call.out.kind = "Buffer"
        /\ decodeSize(Slice(call.out.bytes, 6, 10)) = Len(call.out.bytes) - 10
        /\ FrameNamesOf(SliceFrom(call.out.bytes, 10)) = NamesOf(call.frames)

\* create({ title: "A", image: <89 50 4E 47> }) is a header that declares 42
\* bytes, a TIT2 frame of 5 payload bytes and an APIC frame of 17
C21_TitleThenImage ==
    /\ CreatedOfRecognized
    /\ call.frames = TitlePng
    /\ Slice(call.out.bytes, 6, 10) = <<0, 0, 0, 42>>
    /\ Slice(call.out.bytes, 10, 18) = <<84, 73, 84, 50, 0, 0, 0, 5>>
    /\ Slice(call.out.bytes, 25, 33) = <<65, 80, 73, 67, 0, 0, 0, 17>>
    /\ Len(call.out.bytes) = 52

\* the first payload byte of each of the frames that tile a tag body, with the
\* frame's identifier
RECURSIVE EncodingBytesOf(_)
EncodingBytesOf(body) ==
    IF Len(body) < 10 \/ 10 + readUIntBE(Slice(body, 4, 8)) > Len(body) THEN <<>>
    ELSE << <<Slice(body, 0, 4), At(body, 10)>> >>
            \o EncodingBytesOf(SliceFrom(body, 10 + readUIntBE(Slice(body, 4, 8))))

\* the frames of the tag block create returned, for recognized aliases
Emitted == IF CreatedOfRecognized THEN EncodingBytesOf(SliceFrom(call.out.bytes, 10)) ELSE <<>>

\* C22 as stated: every frame create emits, of every kind, has the selector of
\* the double-byte charset, 1, as the first byte of its payload.
C22_AllFramesDoubleByte == \A i \in 1..Len(Emitted) : Emitted[i][2] = 1

\* C22: every plain-text, comment, lyrics and user-defined-text frame create
\* emits has the selector 1 as the first byte of its payload, and every image
\* frame has the selector 0, that of the single-byte charset.
C22_TextFramesDoubleByte ==
    \A i \in 1..Len(Emitted) : Emitted[i][2] = (IF Emitted[i][1] = APIC THEN 0 ELSE 1)

\* create({ title: "A", image: <89 50 4E 47> }) emits TIT2 with the selector 1
\* and APIC with the selector 0
C22_ImageSingleByte ==
    /\ call.frames = TitlePng
    /\ Emitted = << <<ObjGet(textFrames, "title"), 1>>, <<APIC, 0>> >>

\* a comment or lyrics has been made a frame of
SpecialTextFramed ==
    /\ framing.frameName \in {COMM, USLT}
    /\ framing.step \in {"decode", "done"}
    /\ framing.frame # <<>>

\* the string a field of the value stands for: the empty string when absent
TextOf(field) == IF field = UndefStr THEN <<>> ELSE field

\* C23: the payload emitted for a comment or lyrics is the encoding byte, exactly
\* 3 language bytes ("eng" when no language is supplied, the supplied language
\* at the offsets 1..3 otherwise, also when it has less than three letters),
\* then from offset 4 the short text with a 2-byte terminator and the main text
\* without one.
C23_SpecialTextLayout ==
    SpecialTextFramed =>
        \E data \in {framing.value.items[1]} :
            /\ At(framing.payload, 0) = 1
            /\ IF data[1] = UndefStr THEN Slice(framing.payload, 1, 4) = <<101, 110, 103>>
               ELSE Slice(framing.payload, 1, 1 + Min(3, Len(data[1]))) = Substring(data[1], 0, 3)
            /\ SliceFrom(framing.payload, 4) =
                   iconvEncodeUtf16(TextOf(data[2])) \o <<0, 0>> \o iconvEncodeUtf16(TextOf(data[3]))

\* for the language "en" the short text "s" starts at offset 3: the payload is
\* 01 "en" FF FE 73 00 00 00 FF FE 74 00
C23_ShortLanguageShifts ==
    /\ SpecialTextFramed
    /\ framing.value = SpecialTextValue(<<101, 110>>, <<115>>, <<116>>)
    /\ framing.payload = <<1, 101, 110, 255, 254, 115, 0, 0, 0, 255, 254, 116, 0>>

\* a payload in the double-byte charset has been decoded into a value: the scan
\* for the terminator stopped inside the payload
TerminatorChosen ==
    /\ PayloadDecoded
    /\ At(framing.payload, 0) = 1
    /\ framing.decoded.kind = "value"
    /\ framing.decoded.value # EmptyObjectValue

\* C24: in the double-byte decoders of COMM, USLT and TXXX the index chosen as
\* the terminator of the field is a pair of zero bytes at an even distance from
\* the start of the field: the zero high byte of one character followed by the
\* zero low byte of the next is never taken as the terminator.
C24_TerminatorAligned ==
    TerminatorChosen =>
        \E i \in {scanTerminator(framing.payload)} :
            /\ i >= FieldStart(framing.frameName)
            /\ (i - FieldStart(framing.frameName)) % 2 = 0
            /\ At(framing.payload, i) = 0 /\ At(framing.payload, i + 1) = 0

\* in the TXXX payload 01 41 00 00 FF 00 00, the description "A", U+FF00 and
\* its terminator, the scan stops at index 2, between the two characters, and
\* the description is read as the empty string
C24_TerminatorBetweenCharacters ==
    /\ TerminatorChosen
    /\ framing.frameName = TXXX
    /\ framing.payload = <<1, 65, 0, 0, 255, 0, 0>>
    /\ scanTerminator(framing.payload) = 2
    /\ framing.decoded.value.items[1][1] = <<>>

\* what a call on a Buffer comes to as the first call made: the operation
\* applied to the arguments of the call alone
OfArguments(op, source, frames) ==
    IF op = "create" THEN create(frames)
    ELSE IF op = "read" THEN read(source, strictCopy)
    ELSE IF op = "write" THEN write(FALSE, source, source, frames).out
    ELSE IF op = "update" THEN update(FALSE, frames, source, source, strictCopy).out
    ELSE remove(FALSE, source, source).out

C26_ReadTerminates == call.op = "read" => call.out.kind # "hang"

\* read of the tag with the COMM payload 01 "eng" FF FE 41 00 never returns
C26_ReadNeverReturns ==
    /\ call.op = "read" /\ call.source = UnterminatedTag \o Audio
    /\ call.out = Hang

\* the call before was write(b, m) on a Buffer, which returned a Buffer, and the
\* last call was made on that Buffer
AfterWritten ==
    /\ ~isPath
    /\ prev.op = "write" /\ prev.frames \in RecognizedInputs /\ prev.out.kind = "Buffer"
    /\ call.source = prev.out.bytes

\* C27: remove(write(b, m)) = remove(b) for every Buffer b that remove accepts
\* and every mapping m over recognized aliases, and so
\* write(write(b, m1), m2) = write(b, m2).
C27_WriteThenRemove ==
    /\ AfterWritten /\ call.op = "remove" =>
          call.out = remove(FALSE, prev.source, prev.source).out
    /\ AfterWritten /\ call.op = "write" /\ call.frames \in RecognizedInputs =>
          call.out = write(FALSE, prev.source, prev.source, call.frames).out

\* remove of write(b, { title: "A" }), b a v2.2 tag and audio bytes, returns the
\* audio bytes, as remove(b) does
C27_TagRemovedAgain ==
    /\ AfterWritten /\ call.op = "remove"
    /\ prev.source = V22Tag \o Audio /\ prev.frames = TitleA
    /\ prev.out.bytes = create(TitleA).bytes \o Audio
    /\ call.out = ReturnBuffer(Audio)

\* the frame made of a comment or lyrics with a language of three letters, a
\* short text and a text has been decoded
SpecialTextDecoded ==
    /\ SpecialTextFramed /\ framing.step = "done"
    /\ \A i \in 1..3 : framing.value.items[1][i] # UndefStr
    /\ Len(framing.value.items[1][1]) = 3

\* C28: for a comment or lyrics with a language of three ASCII letters and an
\* ASCII short text and text, each empty or not, decoding the payload the encoder
\* emits returns the same language, short text and text.
C28_SpecialTextRoundTrip == SpecialTextDecoded => framing.decoded = Decoded(framing.value)

\* the comment { language: "eng", shortText: "", text: "AB" } comes back from
\* the payload 01 "eng" FF FE 00 00 FF FE 41 00 42 00
C28_EmptyShortTextBack ==
    /\ SpecialTextDecoded
    /\ framing.value = SpecialTextValue(<<101, 110, 103>>, <<>>, <<65, 66>>)
    /\ framing.payload = <<1, 101, 110, 103, 255, 254, 0, 0, 255, 254, 65, 0, 66, 0>>
    /\ framing.decoded = Decoded(framing.value)
=============================================================================
